---- MODULE Spec2Model ----
(***************************************************************************)
(* Salone-Freelance: the job / application workflow and the per-job        *)
(* private messaging of src/jobs/views.py over the tables of               *)
(* src/jobs/models.py.  A view runs its database statements one by one,   *)
(* each committed on its own (no view opens a transaction), so a request   *)
(* is a sequence of steps and the statements of requests handled at the    *)
(* same time interleave.  A step is one statement that can see or change   *)
(* what another request does, together with the view's own work around it. *)
(***************************************************************************)
EXTENDS Integers, Sequences, FiniteSets, TLC

\* ------------------------------------------------------------ bounds
MaxJobs == 2
MaxApps == 2
MaxMsgs == 2
MaxInbox == 3

\* ------------------------------------------------------------ identities
\* Accounts.  c1 and c2 signed up through signup_client, f1 and f2 through
\* signup_freelancer; u0 is an account without a Profile row.  No view
\* modelled here creates, edits or deletes an account or a profile.
Users == {"c1", "c2", "f1", "f2", "u0"}
None == "None"
Anonymous == "anon"
Requesters == Users \cup {Anonymous}
\* primary keys a URL may carry for a user: the accounts and one unused key
UserKeys == Users \cup {"ghost"}
Methods == {"GET", "POST"}
\* a form field as the view tests it: empty (or missing) or not
FormValues == {"", "x"}
\* The budget field is the characters typed, each character its Unicode code
\* point, for post_job converts them.
\* the decimal digits of 2^63 - 1 and of 2^63, the ends of the integer column
IntegerFieldMax == <<9, 2, 2, 3, 3, 7, 2, 0, 3, 6, 8, 5, 4, 7, 7, 5, 8, 0, 7>>
IntegerFieldMinMagnitude == <<9, 2, 2, 3, 3, 7, 2, 0, 3, 6, 8, 5, 4, 7, 7, 5, 8, 0, 8>>
\* a number written with the digits of the script whose digit zero is zero
Written(zero, ds) == [i \in 1..Len(ds) |-> zero + ds[i]]
Minus == 45
Plus == 43
Underscore == 95
FormFeed == 12
\* The budgets posted: none, a small number, one that is no number, the
\* numbers at and just beyond both ends of the database's integer column, and
\* numbers typed with a form feed around them or in fullwidth digits.
Budget50 == Written(48, <<5, 0>>)
BudgetText == <<97, 98, 99>>
BudgetMax == Written(48, IntegerFieldMax)
BudgetAboveMax == Written(48, IntegerFieldMinMagnitude)
BudgetMin == <<Minus>> \o Written(48, IntegerFieldMinMagnitude)
BudgetBelowMin == <<Minus>> \o Written(48, <<9, 2, 2, 3, 3, 7, 2, 0, 3, 6, 8, 5, 4, 7, 7, 5, 8, 0, 9>>)
BudgetFormFeedAboveMax == <<FormFeed>> \o BudgetAboveMax \o <<FormFeed>>
BudgetFullwidthAboveMax == Written(65296, IntegerFieldMinMagnitude)
BudgetFullwidth50 == Written(65296, <<5, 0>>)
BudgetValues ==
  {<<>>, Budget50, BudgetText, BudgetMax, BudgetAboveMax, BudgetMin, BudgetBelowMin,
   BudgetFormFeedAboveMax, BudgetFullwidthAboveMax, BudgetFullwidth50}
\* the forms posted: complete with each budget, or with one field left empty
JobForms ==
  {<<"x", "x", b>> : b \in BudgetValues} \cup {<<"", "x", Budget50>>, <<"x", "", Budget50>>}
ApplyForms == {<<"x", "x">>, <<"", "x">>, <<"x", "">>}
\* how far the clock has moved on when a row is stamped: two rows can share a timestamp
ClockSteps == {0, 1}

\* Profile.role of an account; None stands for Profile.DoesNotExist
Role(u) ==
  CASE u \in {"c1", "c2"} -> "client"
    [] u \in {"f1", "f2"} -> "freelancer"
    [] OTHER -> None

\* the requests the server can be handling at the same time
Workers == {1, 2}

VARIABLES jobs, apps, nextAppId, msgs, nextMsgId, now, response, inflight
vars == <<jobs, apps, nextAppId, msgs, nextMsgId, now, response, inflight>>

\* jobs: sequence of Job rows, the index is the primary key (jobs are never deleted)
\* apps: set of Application rows [id, job, applicant_user, status]
\* msgs: set of Message rows [id, job, sender, receiver, read, timestamp]
\* nextAppId, nextMsgId: the auto-increment keys; now: the clock behind auto_now_add
\* response: the response sent last; NoResponse once a request that has not
\*   returned yet was taken up after it
\* inflight: for each worker the request it is handling, with the view's
\*   position and the objects the view holds in memory, or Idle

JobIds == 1..MaxJobs
AppIds == 1..MaxApps

\* ------------------------------------------------------------ responses
\* A response is its kind (the status class), the URL name a redirect goes to,
\* the text of a forbidden response, and the context a template is rendered with.
Resp(kind, target, text, ctx) ==
  [kind |-> kind, target |-> target, text |-> text, ctx |-> ctx]
NoResponse == Resp("none", "", "", <<>>)
Redirect(target) == Resp("redirect", target, "", <<>>)
Render(ctx) == Resp("render", "", "", ctx)
Forbidden(text) == Resp("forbidden", "", text, <<>>)
NotFound == Resp("not_found", "", "", <<>>)
NotAllowed == Resp("not_allowed", "", "", <<>>)
\* an exception left the view: the request ends in a server error
ServerError == Resp("error", "", "", <<>>)
\* login_required(login_url='login')
LoginRedirect == Redirect("login")

\* ------------------------------------------------------------ requests in flight
Idle == [view |-> "idle"]
Free(w) == inflight[w] = Idle
\* worker w is in view at the statement pc
At(w, view, pc) == inflight[w].view = view /\ inflight[w].pc = pc
\* the view has run its checks and holds request in memory: its statements follow
TakeUp(w, request) ==
  /\ inflight' = [inflight EXCEPT ![w] = request]
  /\ response' = NoResponse
\* the view goes on to its next statement
GoOn(w, pc) == inflight' = [inflight EXCEPT ![w].pc = pc] /\ UNCHANGED response
\* the view returns
Return(w, resp) ==
  /\ inflight' = [inflight EXCEPT ![w] = Idle]
  /\ response' = resp

\* ------------------------------------------------------------ queries
JobExists(job_id) == job_id \in 1..Len(jobs)
AppExists(app_id) == \E a \in apps : a.id = app_id
AppById(app_id) == CHOOSE a \in apps : a.id = app_id

Init ==
  /\ jobs = <<>>
  /\ apps = {}
  /\ nextAppId = 1
  /\ msgs = {}
  /\ nextMsgId = 1
  /\ now = 0
  /\ response = NoResponse
  /\ inflight = [w \in Workers |-> Idle]

\* ------------------------------------------------------------ job catalog
\* a role check that lets an account without a Profile through
HasRole_OrNoProfile(u, role) == Role(u) \in {role, None}

\* profile = request.user.profile; profile.role == role (False on Profile.DoesNotExist)
HasRole(u, role) == Role(u) = role

\* ---- int(budget): an integer is its sign and its decimal digits
\* The code point of the digit zero of every script with decimal digits
\* (Unicode category Nd, Unicode 14); the nine digits that follow it are 1..9.
DigitZeros ==
  {48, 1632, 1776, 1984, 2406, 2534, 2662, 2790, 2918, 3046, 3174, 3302, 3430,
   3558, 3664, 3792, 3872, 4160, 4240, 6112, 6160, 6470, 6608, 6784, 6800, 6992,
   7088, 7232, 7248, 42528, 43216, 43264, 43472, 43504, 43600, 44016, 65296,
   66720, 68912, 69734, 69872, 69942, 70096, 70384, 70736, 70864, 71248, 71360,
   71472, 71904, 72016, 72784, 73040, 73120, 92768, 92864, 93008, 120782, 120792,
   120802, 120812, 120822, 123200, 123632, 125264, 130032}
\* the characters int() reads as a decimal digit
Digits == UNION {z..(z + 9) : z \in DigitZeros}
DigitValue(c) == c - (CHOOSE z \in DigitZeros : c \in z..(z + 9))
\* the characters int() strips from both ends: tab, line feed, vertical tab,
\* form feed, carriage return, space, and the spaces outside ASCII
Whitespace ==
  {9, 10, 11, 12, 13, 32, 133, 160, 5760} \cup (8192..8202) \cup {8232, 8233, 8239, 8287, 12288}
\* int() refuses a string of more than this many digits
MaxStrDigits == 4300

RECURSIVE StripLeft(_)
StripLeft(s) ==
  IF s # <<>> /\ Head(s) \in Whitespace THEN StripLeft(Tail(s)) ELSE s

RECURSIVE StripRight(_)
StripRight(s) ==
  IF s # <<>> /\ s[Len(s)] \in Whitespace
    THEN StripRight(SubSeq(s, 1, Len(s) - 1)) ELSE s

RECURSIVE DropLeadingZeros(_)
DropLeadingZeros(d) ==
  IF Len(d) > 1 /\ Head(d) = 0 THEN DropLeadingZeros(Tail(d)) ELSE d

\* the integer 0
Zero == [neg |-> FALSE, digits |-> <<0>>]

\* the literal without whitespace around it and without its sign
LiteralBody(s) ==
  LET t == StripRight(StripLeft(s))
  IN IF t # <<>> /\ Head(t) \in {Plus, Minus} THEN Tail(t) ELSE t

\* the digit characters of a sequence of characters
DigitsOf(body) == SelectSeq(body, LAMBDA c : c \in Digits)

\* whether int(s) returns: an optional sign, then digits, single underscores
\* allowed between digits; otherwise int(s) raises ValueError
IsIntLiteral(s) ==
  LET body == LiteralBody(s)
  IN /\ body # <<>>
     /\ \A i \in 1..Len(body) : body[i] \in Digits \cup {Underscore}
     /\ body[1] \in Digits /\ body[Len(body)] \in Digits
     /\ \A i \in 1..(Len(body) - 1) : ~(body[i] = Underscore /\ body[i + 1] = Underscore)
     /\ Len(DigitsOf(body)) <= MaxStrDigits

\* int(s) for a literal s: its sign and the values of its digits
ParseInt(s) ==
  LET t == StripRight(StripLeft(s))
      ds == DigitsOf(LiteralBody(s))
      digits == DropLeadingZeros([i \in 1..Len(ds) |-> DigitValue(ds[i])])
  IN [neg |-> Head(t) = Minus /\ digits # <<0>>, digits |-> digits]

\* try: budget_value = int(budget) / except (ValueError, TypeError): budget_value = 0
BudgetValue(budget) == IF IsIntLiteral(budget) THEN ParseInt(budget) ELSE Zero

\* a <= b for two digit sequences without leading zeros
RECURSIVE DigitsLeq(_, _)
DigitsLeq(a, b) ==
  IF Len(a) # Len(b) THEN Len(a) < Len(b)
  ELSE IF a = <<>> THEN TRUE
  ELSE IF Head(a) # Head(b) THEN Head(a) < Head(b)
  ELSE DigitsLeq(Tail(a), Tail(b))

\* Job.budget is an IntegerField: a signed 64-bit column of the default
\* (SQLite) database, -2^63 .. 2^63 - 1; an INSERT of a value outside it raises
FitsIntegerField(v) ==
  IF v.neg THEN DigitsLeq(v.digits, IntegerFieldMinMagnitude)
           ELSE DigitsLeq(v.digits, IntegerFieldMax)

\* what post_job does to the Job table and what it returns
post_job_result(u, method, title, description, budget) ==
  LET same(resp) == [jobs |-> jobs, response |-> resp]
  IN IF u = Anonymous THEN same(LoginRedirect)
     ELSE IF ~HasRole(u, "client") THEN same(Redirect("home"))
     ELSE IF method = "POST" /\ title # "" /\ description # "" /\ budget # <<>>
       THEN IF FitsIntegerField(BudgetValue(budget))
              THEN [jobs |-> Append(jobs, [owner |-> u, status |-> "open"]),
                    response |-> Redirect("home")]
              ELSE same(ServerError)
       ELSE same(Render(<<>>))

\* the one statement others can see is the INSERT: the profile read before it
\* never changes
post_job(w, u, method, title, description, budget) ==
  /\ Free(w)
  /\ \E r \in {post_job_result(u, method, title, description, budget)} :
       /\ Len(r.jobs) <= MaxJobs
       /\ jobs' = r.jobs
       /\ response' = r.response
  /\ UNCHANGED <<apps, nextAppId, msgs, nextMsgId, now, inflight>>

\* ------------------------------------------------------------ applications
\* what apply_job does to the Application table and what it returns
apply_job_result(u, job_id, method, applicant_name, proposal) ==
  LET same(resp) == [apps |-> apps, nextAppId |-> nextAppId, response |-> resp]
  IN IF u = Anonymous THEN same(LoginRedirect)
     ELSE IF ~HasRole(u, "freelancer") THEN same(Redirect("home"))
     ELSE IF ~JobExists(job_id) THEN same(NotFound)
     ELSE IF method = "POST" /\ applicant_name # "" /\ proposal # ""
       THEN [apps |-> apps \cup {[id |-> nextAppId, job |-> job_id,
                                  applicant_user |-> u, status |-> "pending"]},
             nextAppId |-> nextAppId + 1,
             response |-> Redirect("available_jobs")]
       ELSE same(Render(<<>>))

\* the one statement others can see is the INSERT: the profile and the job's
\* existence read before it never change
apply_job(w, u, job_id, method, applicant_name, proposal) ==
  /\ Free(w)
  /\ \E r \in {apply_job_result(u, job_id, method, applicant_name, proposal)} :
       /\ r.nextAppId <= MaxApps + 1
       /\ apps' = r.apps
       /\ nextAppId' = r.nextAppId
       /\ response' = r.response
  /\ UNCHANGED <<jobs, msgs, nextMsgId, now, inflight>>

\* a check that lets anybody act on a job without an owner
IsOwner_OrOwnerless(job, u) == job.owner = u \/ job.owner = None

\* job.owner != request.user, negated: the requester owns the job
IsOwner(job, u) == job.owner = u

\* the in-memory application with a new status
SaveStatus(a, st) == [a EXCEPT !.status = st]

\* application.save(): an UPDATE of every column of the row with the object's
\* primary key, and an INSERT of the object when no row has that key any more
SaveApplication(table, application) ==
  {a \in table : a.id # application.id} \cup {application}

\* job.save() after job.status = st: an UPDATE of the job's row; the other
\* columns the view wrote back are those it read and never change
SaveJob(table, job_id, st) == [table EXCEPT ![job_id].status = st]

\* What accept_application and reject_application answer before they write:
\* login_required, require_http_methods, get_object_or_404 and the owner test,
\* or NoResponse when the view goes on.  The application is read once; the
\* job read after it is read for its owner, which never changes.
application_check(u, method, app_id, refusal) ==
  IF u = Anonymous THEN LoginRedirect
  ELSE IF method # "POST" THEN NotAllowed
  ELSE IF ~AppExists(app_id) THEN NotFound
  ELSE IF ~IsOwner(jobs[AppById(app_id).job], u) THEN Forbidden(refusal)
  ELSE NoResponse

accept_application_check(u, method, app_id) ==
  application_check(u, method, app_id, "Not authorized to accept this application")

\* what accept_application does to the tables and what it returns when no
\* other request is handled between its statements
accept_application_result(u, method, app_id) ==
  LET same(resp) == [jobs |-> jobs, apps |-> apps, response |-> resp]
      checked == accept_application_check(u, method, app_id)
  IN IF checked # NoResponse THEN same(checked)
     ELSE LET application == AppById(app_id)
          IN [jobs |-> SaveJob(jobs, application.job, "in_progress"),
              apps |-> SaveApplication(apps, SaveStatus(application, "accepted")),
              response |-> Redirect("job_applications")]

\* the request arrives: the view reads the application and its job and checks
accept_application(w, u, method, app_id) ==
  /\ Free(w)
  /\ LET checked == accept_application_check(u, method, app_id)
     IN IF checked # NoResponse
          THEN response' = checked /\ UNCHANGED inflight
          ELSE TakeUp(w, [view |-> "accept_application", pc |-> "application.save",
                          application |-> AppById(app_id)])
  /\ UNCHANGED <<jobs, apps, nextAppId, msgs, nextMsgId, now>>

\* application.status = 'accepted'; application.save()
accept_application_save(w) ==
  /\ At(w, "accept_application", "application.save")
  /\ apps' = SaveApplication(apps, SaveStatus(inflight[w].application, "accepted"))
  /\ GoOn(w, "job.save")
  /\ UNCHANGED <<jobs, nextAppId, msgs, nextMsgId, now>>

\* job.status = 'in_progress'; job.save(); return redirect
accept_application_job_save(w) ==
  /\ At(w, "accept_application", "job.save")
  /\ jobs' = SaveJob(jobs, inflight[w].application.job, "in_progress")
  /\ Return(w, Redirect("job_applications"))
  /\ UNCHANGED <<apps, nextAppId, msgs, nextMsgId, now>>

reject_application_check(u, method, app_id) ==
  application_check(u, method, app_id, "Not authorized to reject this application")

\* what reject_application does to the tables and what it returns when no
\* other request is handled between its statements
reject_application_result(u, method, app_id) ==
  LET same(resp) == [jobs |-> jobs, apps |-> apps, response |-> resp]
      checked == reject_application_check(u, method, app_id)
  IN IF checked # NoResponse THEN same(checked)
     ELSE [jobs |-> jobs,
           apps |-> SaveApplication(apps, SaveStatus(AppById(app_id), "rejected")),
           response |-> Redirect("job_applications")]

\* the request arrives: the view reads the application and its job and checks
reject_application(w, u, method, app_id) ==
  /\ Free(w)
  /\ LET checked == reject_application_check(u, method, app_id)
     IN IF checked # NoResponse
          THEN response' = checked /\ UNCHANGED inflight
          ELSE TakeUp(w, [view |-> "reject_application", pc |-> "application.save",
                          application |-> AppById(app_id)])
  /\ UNCHANGED <<jobs, apps, nextAppId, msgs, nextMsgId, now>>

\* application.status = 'rejected'; application.save(); return redirect
reject_application_save(w) ==
  /\ At(w, "reject_application", "application.save")
  /\ apps' = SaveApplication(apps, SaveStatus(inflight[w].application, "rejected"))
  /\ Return(w, Redirect("job_applications"))
  /\ UNCHANGED <<jobs, nextAppId, msgs, nextMsgId, now>>

\* job.applications.exclude(status='accepted')
ExcludeAccepted(table, job_id) == {a \in table : a.job = job_id /\ a.status # "accepted"}

\* job.applications.exclude(status='accepted').update(status='rejected')
RejectOthers(table, job_id) ==
  (table \ ExcludeAccepted(table, job_id))
    \cup {SaveStatus(a, "rejected") : a \in ExcludeAccepted(table, job_id)}

\* what complete_job answers before it writes, or NoResponse when it goes on
complete_job_check(u, method, job_id) ==
  IF u = Anonymous THEN LoginRedirect
  ELSE IF method # "POST" THEN NotAllowed
  ELSE IF ~JobExists(job_id) THEN NotFound
  ELSE IF ~IsOwner(jobs[job_id], u) THEN Forbidden("Not authorized to complete this job")
  ELSE NoResponse

\* what complete_job does to the tables and what it returns when no other
\* request is handled between its statements
complete_job_result(u, method, job_id) ==
  LET same(resp) == [jobs |-> jobs, apps |-> apps, response |-> resp]
      checked == complete_job_check(u, method, job_id)
  IN IF checked # NoResponse THEN same(checked)
     ELSE [jobs |-> SaveJob(jobs, job_id, "completed"),
           apps |-> RejectOthers(apps, job_id),
           response |-> Redirect("my_jobs")]

\* the request arrives: the view reads the job and checks
complete_job(w, u, method, job_id) ==
  /\ Free(w)
  /\ LET checked == complete_job_check(u, method, job_id)
     IN IF checked # NoResponse
          THEN response' = checked /\ UNCHANGED inflight
          ELSE TakeUp(w, [view |-> "complete_job", pc |-> "job.save", job |-> job_id])
  /\ UNCHANGED <<jobs, apps, nextAppId, msgs, nextMsgId, now>>

\* job.status = 'completed'; job.save()
complete_job_save(w) ==
  /\ At(w, "complete_job", "job.save")
  /\ jobs' = SaveJob(jobs, inflight[w].job, "completed")
  /\ GoOn(w, "applications.update")
  /\ UNCHANGED <<apps, nextAppId, msgs, nextMsgId, now>>

\* the bulk update of the job's applications; return redirect
complete_job_update(w) ==
  /\ At(w, "complete_job", "applications.update")
  /\ apps' = RejectOthers(apps, inflight[w].job)
  /\ Return(w, Redirect("my_jobs"))
  /\ UNCHANGED <<jobs, nextAppId, msgs, nextMsgId, now>>

\* the negation of delete_application's denial test
MayDelete(application, u) ==
  ~(application.applicant_user # u \/ application.status # "rejected")

\* application.delete(): a DELETE of the row with the object's primary key
DeleteApplication(table, application) == {a \in table : a.id # application.id}

\* what delete_application answers before it writes, or NoResponse when it goes on
delete_application_check(u, method, app_id) ==
  IF u = Anonymous THEN LoginRedirect
  ELSE IF method # "POST" THEN NotAllowed
  ELSE IF ~AppExists(app_id) THEN NotFound
  ELSE IF ~MayDelete(AppById(app_id), u)
    THEN Forbidden("Not allowed to delete this application")
  ELSE NoResponse

\* what delete_application does to the tables and what it returns when no
\* other request is handled between its statements
delete_application_result(u, method, app_id) ==
  LET same(resp) == [jobs |-> jobs, apps |-> apps, response |-> resp]
      checked == delete_application_check(u, method, app_id)
  IN IF checked # NoResponse THEN same(checked)
     ELSE [jobs |-> jobs,
           apps |-> DeleteApplication(apps, AppById(app_id)),
           response |-> Redirect("my_applications")]

\* the request arrives: the view reads the application and tests it
delete_application(w, u, method, app_id) ==
  /\ Free(w)
  /\ LET checked == delete_application_check(u, method, app_id)
     IN IF checked # NoResponse
          THEN response' = checked /\ UNCHANGED inflight
          ELSE TakeUp(w, [view |-> "delete_application", pc |-> "application.delete",
                          application |-> AppById(app_id)])
  /\ UNCHANGED <<jobs, apps, nextAppId, msgs, nextMsgId, now>>

\* application.delete(); return redirect
delete_application_delete(w) ==
  /\ At(w, "delete_application", "application.delete")
  /\ apps' = DeleteApplication(apps, inflight[w].application)
  /\ Return(w, Redirect("my_applications"))
  /\ UNCHANGED <<jobs, nextAppId, msgs, nextMsgId, now>>

\* ------------------------------------------------------------ messaging
\* a check that forgets the status of the application
IsAuthorized_AnyApplicant(u, job_id) ==
  LET is_job_owner == u = jobs[job_id].owner
      is_accepted_applicant ==
        \E a \in apps : a.job = job_id /\ a.applicant_user = u
  IN is_job_owner \/ is_accepted_applicant

\* user must be either the job owner or an accepted applicant
IsAuthorized(u, job_id) ==
  LET is_job_owner == u = jobs[job_id].owner
      is_accepted_applicant ==
        \E a \in apps : a.job = job_id /\ a.applicant_user = u /\ a.status = "accepted"
  IN is_job_owner \/ is_accepted_applicant

\* Message.objects.filter(job=job).filter(Q(sender=user, receiver=other) | Q(sender=other, receiver=user))
Thread(ms, u, job_id, other) ==
  {m \in ms : /\ m.job = job_id
              /\ \/ (m.sender = u /\ m.receiver = other)
                 \/ (m.sender = other /\ m.receiver = u)}

\* a filter that forgets the sender
UnreadFrom_AnySender(ms, u, job_id, other) ==
  {m \in ms : m.job = job_id /\ m.receiver = u /\ m.read = FALSE}

\* Message.objects.filter(job=job, receiver=user, sender=other, read=False)
UnreadFrom(ms, u, job_id, other) ==
  {m \in ms : m.job = job_id /\ m.receiver = u /\ m.sender = other /\ m.read = FALSE}

\* .update(read=True) on UnreadFrom
MarkRead(ms, u, job_id, other) ==
  (ms \ UnreadFrom(ms, u, job_id, other))
    \cup {[m EXCEPT !.read = TRUE] : m \in UnreadFrom(ms, u, job_id, other)}

\* The rows of S as order_by returns them: ascending (or descending) timestamp;
\* the database fixes no order among rows of equal timestamp, so every order
\* of such rows is a possible result.
RECURSIVE OrderByTimestamp(_, _)
OrderByTimestamp(S, descending) ==
  IF S = {} THEN {<<>>}
  ELSE LET first == {m \in S : \A other \in S :
                       IF descending THEN m.timestamp >= other.timestamp
                                     ELSE m.timestamp <= other.timestamp}
       IN UNION {{<<m>> \o rest : rest \in OrderByTimestamp(S \ {m}, descending)} :
                   m \in first}

RowIds(s) == [i \in 1..Len(s) |-> s[i].id]

\* Message.objects.create(sender=user, receiver=other, job=job, content=content):
\* the row gets the next key, is unread and is stamped with the clock
NewMessage(id, u, job_id, other, stamp) ==
  [id |-> id, job |-> job_id, sender |-> u, receiver |-> other, read |-> FALSE,
   timestamp |-> stamp]

\* What conversation answers before it writes, or NoResponse when it goes on:
\* login_required, the two get_object_or_404 and the authorization test.  The
\* job and the user read never change; the applications are read once.
conversation_check(u, job_id, user_id) ==
  IF u = Anonymous THEN LoginRedirect
  ELSE IF ~JobExists(job_id) \/ user_id \notin Users THEN NotFound
  ELSE IF ~IsAuthorized(u, job_id) THEN Forbidden("Not authorized to view this conversation")
  ELSE NoResponse

\* What conversation does to the Message table and what it returns when no
\* other request is handled between its statements: one outcome, or one for
\* each order the database may return the thread in.
\* dt is how far the clock has moved on when the new message is stamped.
conversation_results(u, job_id, user_id, method, content, dt) ==
  LET same(resp) == [msgs |-> msgs, nextMsgId |-> nextMsgId, now |-> now, response |-> resp]
      checked == conversation_check(u, job_id, user_id)
  IN IF checked # NoResponse THEN {same(checked)}
     ELSE LET marked == MarkRead(msgs, u, job_id, user_id)
          IN IF method = "POST"
               THEN IF content # ""
                      THEN {[msgs |-> marked \cup
                               {NewMessage(nextMsgId, u, job_id, user_id, now + dt)},
                             nextMsgId |-> nextMsgId + 1,
                             now |-> now + dt,
                             response |-> Redirect("conversation")]}
                      ELSE {[msgs |-> marked, nextMsgId |-> nextMsgId, now |-> now,
                             response |-> Redirect("conversation")]}
               ELSE {[msgs |-> marked, nextMsgId |-> nextMsgId, now |-> now,
                      response |-> Render(RowIds(messages))] :
                       messages \in OrderByTimestamp(
                                      Thread(marked, u, job_id, user_id), FALSE)}

\* the requests in flight that will still create a message
Creating == {w \in Workers : inflight[w].view = "conversation" /\ inflight[w].content # ""}

\* the request arrives: the view reads the job, the user and the applications
\* and checks
conversation(w, u, job_id, user_id, method, content) ==
  /\ Free(w)
  /\ LET checked == conversation_check(u, job_id, user_id)
     IN IF checked # NoResponse
          THEN response' = checked /\ UNCHANGED inflight
          ELSE /\ (method = "POST" /\ content # "") =>
                    nextMsgId + Cardinality(Creating) <= MaxMsgs
               /\ TakeUp(w, [view |-> "conversation", pc |-> "update", u |-> u,
                             job |-> job_id, other |-> user_id, method |-> method,
                             content |-> IF method = "POST" THEN content ELSE ""])
  /\ UNCHANGED <<jobs, apps, nextAppId, msgs, nextMsgId, now>>

\* the UPDATE that marks the received messages read; a POST without content
\* returns its redirect after it
conversation_update(w) ==
  /\ At(w, "conversation", "update")
  /\ msgs' = MarkRead(msgs, inflight[w].u, inflight[w].job, inflight[w].other)
  /\ IF inflight[w].method = "POST"
       THEN IF inflight[w].content # "" THEN GoOn(w, "pre_save")
                                       ELSE Return(w, Redirect("conversation"))
       ELSE GoOn(w, "render")
  /\ UNCHANGED <<jobs, apps, nextAppId, nextMsgId, now>>

\* Message.objects.create(...), before its INSERT is sent: auto_now_add reads
\* the clock (pre_save), which has moved on by dt, and the view holds the stamp
conversation_create_pre_save(w, dt) ==
  /\ At(w, "conversation", "pre_save")
  /\ now' = now + dt
  /\ inflight' = [inflight EXCEPT ![w] =
                    [view |-> "conversation", pc |-> "create", u |-> inflight[w].u,
                     job |-> inflight[w].job, other |-> inflight[w].other,
                     method |-> inflight[w].method, content |-> inflight[w].content,
                     timestamp |-> now + dt]]
  /\ UNCHANGED <<jobs, apps, nextAppId, msgs, nextMsgId, response>>

\* the INSERT of Message.objects.create(...): the row gets the next key and
\* the stamp read before; return redirect
conversation_create(w) ==
  /\ At(w, "conversation", "create")
  /\ msgs' = msgs \cup {NewMessage(nextMsgId, inflight[w].u, inflight[w].job,
                                   inflight[w].other, inflight[w].timestamp)}
  /\ nextMsgId' = nextMsgId + 1
  /\ Return(w, Redirect("conversation"))
  /\ UNCHANGED <<jobs, apps, nextAppId, now>>

\* the template runs the query of the thread, built before the UPDATE and
\* not run until here
conversation_render(w) ==
  /\ At(w, "conversation", "render")
  /\ \E messages \in OrderByTimestamp(
                       Thread(msgs, inflight[w].u, inflight[w].job, inflight[w].other),
                       FALSE) :
       Return(w, Render(RowIds(messages)))
  /\ UNCHANGED <<jobs, apps, nextAppId, msgs, nextMsgId, now>>

\* Message.objects.filter(job=job, sender__in=[user, other], receiver__in=[user, other])
ChatToClear(ms, u, job_id, other) ==
  {m \in ms : m.job = job_id /\ m.sender \in {u, other} /\ m.receiver \in {u, other}}

\* what clear_chat answers before it writes, or NoResponse when it goes on
clear_chat_check(u, method, job_id, user_id) ==
  IF u = Anonymous THEN LoginRedirect
  ELSE IF method # "POST" THEN NotAllowed
  ELSE IF ~JobExists(job_id) \/ user_id \notin Users THEN NotFound
  ELSE IF ~IsAuthorized(u, job_id) THEN Forbidden("Not authorized to clear this chat")
  ELSE NoResponse

\* what clear_chat does to the Message table and what it returns when no
\* other request is handled between its statements
clear_chat_result(u, method, job_id, user_id) ==
  LET same(resp) == [msgs |-> msgs, response |-> resp]
      checked == clear_chat_check(u, method, job_id, user_id)
  IN IF checked # NoResponse THEN same(checked)
     ELSE [msgs |-> msgs \ ChatToClear(msgs, u, job_id, user_id),
           response |-> Redirect("conversation")]

\* the request arrives: the view reads the job, the user and the applications
\* and checks
clear_chat(w, u, method, job_id, user_id) ==
  /\ Free(w)
  /\ LET checked == clear_chat_check(u, method, job_id, user_id)
     IN IF checked # NoResponse
          THEN response' = checked /\ UNCHANGED inflight
          ELSE TakeUp(w, [view |-> "clear_chat", pc |-> "delete", u |-> u,
                          job |-> job_id, other |-> user_id])
  /\ UNCHANGED <<jobs, apps, nextAppId, msgs, nextMsgId, now>>

\* the DELETE of the chat; return redirect
clear_chat_delete(w) ==
  /\ At(w, "clear_chat", "delete")
  /\ msgs' = msgs \ ChatToClear(msgs, inflight[w].u, inflight[w].job, inflight[w].other)
  /\ Return(w, Redirect("conversation"))
  /\ UNCHANGED <<jobs, apps, nextAppId, nextMsgId, now>>

\* Message.objects.filter(Q(sender=user) | Q(receiver=user))
Involving(ms, u) == {m \in ms : m.sender = u \/ m.receiver = u}

\* a key that always takes the receiver
OtherUser_AlwaysReceiver(msg, u) == msg.receiver

\* other_user = msg.sender if msg.receiver == request.user else msg.receiver
OtherUser(msg, u) == IF msg.receiver = u THEN msg.sender ELSE msg.receiver

HasKey(conversations, other_user, job_id) ==
  \E i \in 1..Len(conversations) :
    conversations[i].other_user = other_user /\ conversations[i].job = job_id

\* The loop of my_conversations over messages[i..]: the entries of the dict in
\* the order their keys are inserted, each still without its unread_count.
RECURSIVE Conversations(_, _, _, _)
Conversations(messages, i, u, conversations) ==
  IF i > Len(messages) THEN conversations
  ELSE LET msg == messages[i]
           other_user == OtherUser(msg, u)
       IN IF ~HasKey(conversations, other_user, msg.job)
            THEN Conversations(messages, i + 1, u,
                   Append(conversations,
                     [job |-> msg.job, other_user |-> other_user,
                      last_message_time |-> msg.timestamp]))
            ELSE Conversations(messages, i + 1, u, conversations)

\* the entry with the COUNT the loop runs when it inserts the key
WithUnreadCount(entry, ms, u) ==
  [job |-> entry.job, other_user |-> entry.other_user,
   last_message_time |-> entry.last_message_time,
   unread_count |-> Cardinality(UnreadFrom(ms, u, entry.job, entry.other_user))]

\* where a stable descending sort puts e among the already sorted prefix s:
\* after every element whose key is not smaller
RECURSIVE InsertDescending(_, _)
InsertDescending(s, e) ==
  IF s = <<>> THEN <<e>>
  ELSE IF s[Len(s)].last_message_time >= e.last_message_time
    THEN Append(s, e)
    ELSE Append(InsertDescending(SubSeq(s, 1, Len(s) - 1), e), s[Len(s)])

\* sorted(values, key=last_message_time, reverse=True)
RECURSIVE SortedByLastMessage(_)
SortedByLastMessage(s) ==
  IF s = <<>> THEN <<>>
  ELSE InsertDescending(SortedByLastMessage(SubSeq(s, 1, Len(s) - 1)), s[Len(s)])

\* what my_conversations returns when no other request is handled between
\* its statements: one response, or one for each order the database may
\* return the messages in
my_conversations_results(u) ==
  IF u = Anonymous THEN {LoginRedirect}
  ELSE {Render(SortedByLastMessage(
                 [i \in 1..Len(Conversations(messages, 1, u, <<>>)) |->
                    WithUnreadCount(Conversations(messages, 1, u, <<>>)[i], msgs, u)])) :
          messages \in OrderByTimestamp(Involving(msgs, u), TRUE)}

\* The request arrives: the loop starts and the messages are read, all at
\* once.  What the loop does with them apart from its COUNTs depends on these
\* rows alone: the view holds the entries still to be counted.
my_conversations(w, u) ==
  /\ Free(w)
  /\ IF u = Anonymous THEN response' = LoginRedirect /\ UNCHANGED inflight
     ELSE \E messages \in OrderByTimestamp(Involving(msgs, u), TRUE) :
            IF messages = <<>>
              THEN response' = Render(<<>>) /\ UNCHANGED inflight
              ELSE TakeUp(w, [view |-> "my_conversations", pc |-> "count", u |-> u,
                              pending |-> Conversations(messages, 1, u, <<>>),
                              conversations |-> <<>>])
  /\ UNCHANGED <<jobs, apps, nextAppId, msgs, nextMsgId, now>>

\* the COUNT of the next entry; after the last one the view sorts and renders
my_conversations_count(w) ==
  /\ At(w, "my_conversations", "count")
  /\ LET counted == Append(inflight[w].conversations,
                      WithUnreadCount(Head(inflight[w].pending), msgs, inflight[w].u))
     IN IF Len(inflight[w].pending) = 1
          THEN Return(w, Render(SortedByLastMessage(counted)))
          ELSE /\ inflight' = [inflight EXCEPT ![w].pending = Tail(@),
                                               ![w].conversations = counted]
               /\ UNCHANGED response
  /\ UNCHANGED <<jobs, apps, nextAppId, msgs, nextMsgId, now>>

\* ------------------------------------------------------------ the server
\* the statements of the requests in flight
AcceptSteps(w) == accept_application_save(w) \/ accept_application_job_save(w)
CompleteSteps(w) == complete_job_save(w) \/ complete_job_update(w)
ConversationSteps(w) ==
  \/ conversation_update(w)
  \/ \E dt \in ClockSteps : conversation_create_pre_save(w, dt)
  \/ conversation_create(w)
  \/ conversation_render(w)

Next ==
  \/ \E w \in Workers, u \in Requesters, method \in Methods, f \in JobForms :
        post_job(w, u, method, f[1], f[2], f[3])
  \/ \E w \in Workers, u \in Requesters, j \in JobIds, method \in Methods, f \in ApplyForms :
        apply_job(w, u, j, method, f[1], f[2])
  \/ \E w \in Workers, u \in Requesters, method \in Methods, a \in AppIds :
        accept_application(w, u, method, a)
  \/ \E w \in Workers, u \in Requesters, method \in Methods, a \in AppIds :
        reject_application(w, u, method, a)
  \/ \E w \in Workers, u \in Requesters, method \in Methods, j \in JobIds :
        complete_job(w, u, method, j)
  \/ \E w \in Workers, u \in Requesters, method \in Methods, a \in AppIds :
        delete_application(w, u, method, a)
  \/ \E w \in Workers, u \in Requesters, j \in JobIds, o \in UserKeys, method \in Methods,
        c \in FormValues : conversation(w, u, j, o, method, c)
  \/ \E w \in Workers, u \in Requesters, method \in Methods, j \in JobIds, o \in UserKeys :
        clear_chat(w, u, method, j, o)
  \/ \E w \in Workers, u \in Requesters : my_conversations(w, u)
  \/ \E w \in Workers : AcceptSteps(w)
  \/ \E w \in Workers : reject_application_save(w)
  \/ \E w \in Workers : CompleteSteps(w)
  \/ \E w \in Workers : delete_application_delete(w)
  \/ \E w \in Workers : ConversationSteps(w)
  \/ \E w \in Workers : clear_chat_delete(w)
  \/ \E w \in Workers : my_conversations_count(w)

Spec == Init /\ [][Next]_vars

\* ------------------------------------------------------------ the workflow alone
\* The requests that read and write only Job and Application rows, handled
\* one request at a time.
OneWorker == {1}

NextWorkflow ==
  \/ \E w \in OneWorker, u \in Requesters, method \in Methods, f \in JobForms :
        post_job(w, u, method, f[1], f[2], f[3])
  \/ \E w \in OneWorker, u \in Requesters, j \in JobIds, method \in Methods,
        f \in ApplyForms : apply_job(w, u, j, method, f[1], f[2])
  \/ \E w \in OneWorker, u \in Requesters, method \in Methods, a \in AppIds :
        accept_application(w, u, method, a)
  \/ \E w \in OneWorker, u \in Requesters, method \in Methods, a \in AppIds :
        reject_application(w, u, method, a)
  \/ \E w \in OneWorker, u \in Requesters, method \in Methods, j \in JobIds :
        complete_job(w, u, method, j)
  \/ \E w \in OneWorker, u \in Requesters, method \in Methods, a \in AppIds :
        delete_application(w, u, method, a)
  \/ \E w \in OneWorker : AcceptSteps(w)
  \/ \E w \in OneWorker : reject_application_save(w)
  \/ \E w \in OneWorker : CompleteSteps(w)
  \/ \E w \in OneWorker : delete_application_delete(w)

SpecWorkflow == Init /\ [][NextWorkflow]_vars

\* Job.owner is nullable and Job is registered with the admin site: the table
\* may hold a job that no view created and that has no owner.
InitLegacy ==
  /\ jobs = <<[owner |-> None, status |-> "open"]>>
  /\ apps = {}
  /\ nextAppId = 1
  /\ msgs = {}
  /\ nextMsgId = 1
  /\ now = 0
  /\ response = NoResponse
  /\ inflight = [w \in Workers |-> Idle]

SpecLegacy == InitLegacy /\ [][NextWorkflow]_vars

\* ------------------------------------------------------------ overlapping requests
\* The state after c1 posted a job and f1 and f2 applied to it; from there the
\* owner's and the applicants' POSTs on that job and those applications, two
\* of them handled at the same time.
InitOverlap ==
  /\ jobs = <<[owner |-> "c1", status |-> "open"]>>
  /\ apps = {[id |-> 1, job |-> 1, applicant_user |-> "f1", status |-> "pending"],
             [id |-> 2, job |-> 1, applicant_user |-> "f2", status |-> "pending"]}
  /\ nextAppId = 3
  /\ msgs = {}
  /\ nextMsgId = 1
  /\ now = 0
  /\ response = Redirect("available_jobs")
  /\ inflight = [w \in Workers |-> Idle]

OverlapRequesters == {"c1", "f1", "f2"}
OverlapApps == {1, 2}

NextOverlap ==
  \/ \E w \in Workers, u \in OverlapRequesters, a \in OverlapApps :
        accept_application(w, u, "POST", a)
  \/ \E w \in Workers, u \in OverlapRequesters, a \in OverlapApps :
        reject_application(w, u, "POST", a)
  \/ \E w \in Workers, u \in OverlapRequesters : complete_job(w, u, "POST", 1)
  \/ \E w \in Workers, u \in OverlapRequesters, a \in OverlapApps :
        delete_application(w, u, "POST", a)
  \/ \E w \in Workers : AcceptSteps(w)
  \/ \E w \in Workers : reject_application_save(w)
  \/ \E w \in Workers : CompleteSteps(w)
  \/ \E w \in Workers : delete_application_delete(w)

SpecOverlap == InitOverlap /\ [][NextOverlap]_vars

\* ------------------------------------------------------------ the threads
\* The state after c1 posted two jobs and f1 applied to the first; from there
\* the requests that decide who may use a thread, and the thread requests,
\* handled one request at a time.
InitMessaging ==
  /\ jobs = <<[owner |-> "c1", status |-> "open"], [owner |-> "c1", status |-> "open"]>>
  /\ apps = {[id |-> 1, job |-> 1, applicant_user |-> "f1", status |-> "pending"]}
  /\ nextAppId = 2
  /\ msgs = {}
  /\ nextMsgId = 1
  /\ now = 0
  /\ response = Redirect("available_jobs")
  /\ inflight = [w \in Workers |-> Idle]

\* c2, f2 and u0 neither own a job nor have applied here: u0 stands for the three
ThreadRequesters == {"c1", "f1", "u0"}
ThreadKeys == {"c1", "f1", "u0", "ghost"}
\* a GET, a POST without content, a POST with content
ThreadRequests == {<<"GET", "">>, <<"POST", "">>, <<"POST", "x">>}
\* here the clock has always moved on between two messages
ThreadClockSteps == {1}

NextMessaging ==
  \/ \E w \in OneWorker, u \in ThreadRequesters, method \in Methods, a \in AppIds :
        accept_application(w, u, method, a)
  \/ \E w \in OneWorker, u \in ThreadRequesters, method \in Methods, a \in AppIds :
        reject_application(w, u, method, a)
  \/ \E w \in OneWorker, u \in ThreadRequesters, j \in JobIds, o \in ThreadKeys,
        q \in ThreadRequests : conversation(w, u, j, o, q[1], q[2])
  \/ \E w \in OneWorker, u \in ThreadRequesters, method \in Methods, j \in JobIds,
        o \in ThreadKeys : clear_chat(w, u, method, j, o)
  \/ \E w \in OneWorker : AcceptSteps(w)
  \/ \E w \in OneWorker : reject_application_save(w)
  \/ \E w \in OneWorker : conversation_update(w)
  \/ \E w \in OneWorker, dt \in ThreadClockSteps : conversation_create_pre_save(w, dt)
  \/ \E w \in OneWorker : conversation_create(w)
  \/ \E w \in OneWorker : conversation_render(w)
  \/ \E w \in OneWorker : clear_chat_delete(w)

SpecMessaging == InitMessaging /\ [][NextMessaging]_vars

\* The state after c1 posted a job and accepted f1's application; from there
\* the thread of c1 and f1, opened and written to by both, two requests
\* handled at the same time.
InitOverlapThread ==
  /\ jobs = <<[owner |-> "c1", status |-> "in_progress"]>>
  /\ apps = {[id |-> 1, job |-> 1, applicant_user |-> "f1", status |-> "accepted"]}
  /\ nextAppId = 2
  /\ msgs = {}
  /\ nextMsgId = 1
  /\ now = 0
  /\ response = Redirect("job_applications")
  /\ inflight = [w \in Workers |-> Idle]

\* who opens the thread of job 1, and with whom
OverlapThreads == {<<"c1", "f1">>, <<"f1", "c1">>}
\* a GET, a POST with content
OverlapThreadRequests == {<<"GET", "">>, <<"POST", "x">>}

NextOverlapThread ==
  \/ \E w \in Workers, t \in OverlapThreads, q \in OverlapThreadRequests :
        conversation(w, t[1], 1, t[2], q[1], q[2])
  \/ \E w \in Workers : conversation_update(w)
  \/ \E w \in Workers, dt \in ThreadClockSteps : conversation_create_pre_save(w, dt)
  \/ \E w \in Workers : conversation_create(w)
  \/ \E w \in Workers : conversation_render(w)

SpecOverlapThread == InitOverlapThread /\ [][NextOverlapThread]_vars

\* ------------------------------------------------------------ the inbox
\* The tables my_conversations is applied to: up to MaxInbox messages, each
\* in one of c1's two jobs and from c1 or f1 (accepted on both jobs) to c1 or
\* f1, themselves included, and each of them opened by its receiver or not.
\* A message carries the clock as it was read before its INSERT was sent:
\* two messages can share a timestamp, and when two requests overlapped the
\* message with the larger key can carry the older one.  The requests are
\* handled one at a time.
InboxJobs == {1, 2}
InboxUsers == {"c1", "f1"}
InboxStamps == 0..(MaxInbox - 1)
InboxFields ==
  [job : InboxJobs, sender : InboxUsers, receiver : InboxUsers, timestamp : InboxStamps,
   read : BOOLEAN]

InboxTable(f, n) ==
  {[id |-> i, job |-> f[i].job, sender |-> f[i].sender, receiver |-> f[i].receiver,
    read |-> f[i].read, timestamp |-> f[i].timestamp] : i \in 1..n}

\* the clock is not behind any stamp read from it
LatestStamp(f, n) ==
  IF n = 0 THEN 0 ELSE CHOOSE t \in InboxStamps :
                         /\ \E i \in 1..n : f[i].timestamp = t
                         /\ \A i \in 1..n : f[i].timestamp <= t

InitInbox ==
  /\ jobs = [j \in InboxJobs |-> [owner |-> "c1", status |-> "in_progress"]]
  /\ apps = {[id |-> j, job |-> j, applicant_user |-> "f1", status |-> "accepted"] :
               j \in InboxJobs}
  /\ nextAppId = Cardinality(InboxJobs) + 1
  /\ \E n \in 0..MaxInbox : \E f \in [1..n -> InboxFields] :
       /\ msgs = InboxTable(f, n)
       /\ nextMsgId = n + 1
       /\ now = LatestStamp(f, n)
  /\ response = NoResponse
  /\ inflight = [w \in Workers |-> Idle]

NextInbox ==
  \/ \E w \in OneWorker, u \in InboxUsers \cup {"u0", Anonymous} : my_conversations(w, u)
  \/ \E w \in OneWorker : my_conversations_count(w)

SpecInbox == InitInbox /\ [][NextInbox]_vars

\* the counterpart of user u in a message that involves u, in the claim's terms
Counterpart(m, u) == IF m.sender = u THEN m.receiver ELSE m.sender

\* the messages of the pair (job, counterpart) of user u
PairMessages(u, job_id, other) ==
  {m \in Involving(msgs, u) : m.job = job_id /\ Counterpart(m, u) = other}

\* C9: for every user and every table of messages, my_conversations returns
\* exactly one entry for each distinct (job, counterpart) pair that has a
\* message with the user as sender or receiver, and no other entry; each
\* entry's last_message_time is the newest timestamp of its pair; the entries
\* are in descending last_message_time.
C9_OneEntryPerPair ==
  \A u \in Users : \A returned \in my_conversations_results(u) :
    LET entries == returned.ctx
        pairs == {<<m.job, Counterpart(m, u)>> : m \in Involving(msgs, u)}
    IN /\ {<<entries[i].job, entries[i].other_user>> : i \in 1..Len(entries)} = pairs
       /\ Len(entries) = Cardinality(pairs)
       /\ \A i \in 1..Len(entries) :
            LET ms == PairMessages(u, entries[i].job, entries[i].other_user)
            IN /\ \E m \in ms : m.timestamp = entries[i].last_message_time
               /\ \A m \in ms : m.timestamp <= entries[i].last_message_time
       /\ \A i, k \in 1..Len(entries) :
            i < k => entries[i].last_message_time >= entries[k].last_message_time

\* C9 witness: a list of two conversations was returned from three messages:
\* the first conversation has the newest message and also a message older than
\* the second conversation's
C9_Witness ==
  /\ response.kind = "render"
  /\ Cardinality(msgs) = 3
  /\ Len(response.ctx) = 2
  /\ response.ctx[1].last_message_time > response.ctx[2].last_message_time
  /\ \E m \in msgs : /\ m.job = response.ctx[1].job
                     /\ response.ctx[1].other_user \in {m.sender, m.receiver}
                     /\ m.timestamp < response.ctx[2].last_message_time

\* ------------------------------------------------------------ the workflow claims
\* C1: a job's status only ever changes open -> in_progress or -> completed:
\* a completed job stays completed and an in_progress job never returns to open.
C1_JobStatusForwardOnly ==
  [][\A j \in 1..Len(jobs) :
       \/ jobs'[j].status = jobs[j].status
       \/ jobs[j].status = "open" /\ jobs'[j].status \in {"in_progress", "completed"}
       \/ jobs[j].status = "in_progress" /\ jobs'[j].status = "completed"]_vars

\* worker w returns from view in this step
Returns(w, view) == inflight[w].view = view /\ inflight'[w] = Idle

\* C2: when accept_application, invoked by the owner of the application's job,
\* returns, the target application is accepted and the job is in_progress; its
\* write of the application changes no other application.
C2_AcceptByOwner ==
  [][\A w \in Workers :
       /\ Returns(w, "accept_application") =>
            /\ \E a \in apps' : /\ a.id = inflight[w].application.id
                                /\ a.status = "accepted"
            /\ jobs'[inflight[w].application.job].status = "in_progress"
       /\ accept_application_save(w) =>
            {a \in apps' : a.id # inflight[w].application.id} =
              {a \in apps : a.id # inflight[w].application.id}]_vars

\* C3: when complete_job, invoked by the job's owner, returns, the job is
\* completed, every application of the job that was not accepted is rejected,
\* every accepted one is still accepted, and the applications of other jobs
\* are as they were.
C3_CompleteByOwner ==
  [][\A w \in Workers :
       Returns(w, "complete_job") =>
         /\ jobs'[inflight[w].job].status = "completed"
         /\ {a.id : a \in apps'} = {a.id : a \in apps}
         /\ \A a \in apps :
              [a EXCEPT !.status = IF a.job = inflight[w].job /\ a.status # "accepted"
                                     THEN "rejected" ELSE a.status] \in apps'
         /\ \A a \in apps' : a.job = inflight[w].job => a.status \in {"accepted", "rejected"}]_vars

\* C4: an application row is removed only by delete_application requested by
\* its applicant_user, and only a row whose status is rejected; a
\* delete_application request from anybody else, or for a row that is not
\* rejected, gets a denial and leaves the applications as they were.
C4_DeleteOnlyOwnRejected ==
  [][/\ \A a \in apps :
          (\A b \in apps' : b.id # a.id) =>
            /\ a.status = "rejected"
            /\ \E w \in Workers :
                 /\ inflight[w].view = "delete_application"
                 /\ inflight[w].application.id = a.id
                 /\ inflight[w].application.applicant_user = a.applicant_user
                 /\ delete_application_delete(w)
     /\ \A u \in Users, app_id \in AppIds :
          (AppExists(app_id) /\ ~(AppById(app_id).applicant_user = u
                                  /\ AppById(app_id).status = "rejected")) =>
            LET after == delete_application_result(u, "POST", app_id)
            IN after.apps = apps /\ after.response.kind = "forbidden"]_vars

\* C5: an application's status only changes from pending (to accepted or to
\* rejected): an accepted one never becomes rejected or pending, a rejected one
\* never becomes accepted or pending.
C5_AppStatusForwardOnly ==
  [][\A a \in apps : \A b \in apps' :
       b.id = a.id => (b.status = a.status \/ a.status = "pending")]_vars

\* C6: in every reachable state, accept_application, reject_application or
\* complete_job POSTed by a user who is not the owner of the job concerned (a
\* job without owner included) is answered forbidden and changes no job and
\* no application.
C6_NonOwnerDenied ==
  /\ \A u \in Users, app_id \in AppIds :
       (AppExists(app_id) /\ jobs[AppById(app_id).job].owner # u) =>
         \A after \in {accept_application_result(u, "POST", app_id),
                       reject_application_result(u, "POST", app_id)} :
           after.response.kind = "forbidden" /\ after.jobs = jobs /\ after.apps = apps
  /\ \A u \in Users, job_id \in JobIds :
       (JobExists(job_id) /\ jobs[job_id].owner # u) =>
         LET after == complete_job_result(u, "POST", job_id)
         IN after.response.kind = "forbidden" /\ after.jobs = jobs /\ after.apps = apps

\* C6 witness: a completion was just refused while a job without owner, still
\* open, has an application
C6_Witness ==
  /\ response = Forbidden("Not authorized to complete this job")
  /\ \E a \in apps : jobs[a.job].owner = None /\ jobs[a.job].status = "open"

\* ------------------------------------------------------------ the thread claims
\* the claims' own wording of who may use the threads of a job
MayUseThread(u, job_id) ==
  \/ jobs[job_id].owner = u
  \/ \E a \in apps : a.job = job_id /\ a.applicant_user = u /\ a.status = "accepted"

\* what the claims call the thread (job, u, other): both directions
Between(m, job_id, u, other) ==
  /\ m.job = job_id
  /\ \/ (m.sender = u /\ m.receiver = other)
     \/ (m.sender = other /\ m.receiver = u)

\* C7: when the conversation view returns to an authorized viewer who opened
\* the thread (job, other), by GET or POST, every message of that job with
\* sender = other and receiver = viewer is read; the view's UPDATE leaves the
\* read flag of every other message as it was (the viewer's own messages to
\* other, the messages of other jobs and of other counterparts) and loses no
\* message.
C7_ViewMarksRead ==
  [][\A w \in Workers :
       /\ Returns(w, "conversation") =>
            \A m \in msgs' :
              (/\ m.job = inflight[w].job
               /\ m.sender = inflight[w].other
               /\ m.receiver = inflight[w].u) => m.read
       /\ conversation_update(w) =>
            /\ \A m \in msgs :
                 [m EXCEPT !.read = IF /\ m.job = inflight[w].job
                                       /\ m.sender = inflight[w].other
                                       /\ m.receiver = inflight[w].u
                                      THEN TRUE ELSE m.read] \in msgs'
            /\ \A m \in msgs :
                 (/\ m.job = inflight[w].job
                  /\ m.sender = inflight[w].u
                  /\ m.receiver = inflight[w].other) => m \in msgs']_vars

\* C8: a message is created unread; its read flag goes from false to true only
\* in a step in which its receiver opens the conversation view of its job and
\* its sender (the UPDATE of that request); it never goes from true to false.
C8_ReadMonotonic ==
  [][/\ \A m \in msgs : \A n \in msgs' :
          n.id = m.id =>
            /\ m.read => n.read
            /\ (~m.read /\ n.read) =>
                 \E w \in Workers :
                   /\ inflight[w].view = "conversation"
                   /\ inflight[w].u = m.receiver
                   /\ inflight[w].job = m.job
                   /\ inflight[w].other = m.sender
                   /\ conversation_update(w)
     /\ \A n \in msgs' : (\A m \in msgs : m.id # n.id) => ~n.read]_vars

\* C8 witness: two messages were sent to the same receiver in the same job by
\* different senders; one has been read and the other has not
C8_Witness ==
  \E m1, m2 \in msgs :
    /\ m1.job = m2.job /\ m1.receiver = m2.receiver /\ m1.sender # m2.sender
    /\ m1.read /\ ~m2.read

\* C10: clear_chat(job, other) POSTed by an authorized requester deletes
\* exactly the messages of that job whose (sender, receiver) is
\* (requester, other) or (other, requester), and leaves every other message
\* untouched.
C10_ClearExactlyThread ==
  [][\A w \in Workers :
       clear_chat_delete(w) =>
         msgs' = {m \in msgs : ~Between(m, inflight[w].job, inflight[w].u,
                                        inflight[w].other)}]_vars

\* C11: in every reachable state, a conversation request (GET or POST) or a
\* clear_chat request for an existing job and user, from a signed-in requester
\* who is neither the job's owner nor holds an application on that job whose
\* status is accepted at that moment (pending, rejected, or accepted and later
\* rejected), is answered forbidden and leaves the Message table as it was:
\* nothing created, marked read or deleted.
C11_ThreadsOnlyForParties ==
  \A u \in Users, job_id \in JobIds :
    (JobExists(job_id) /\ ~MayUseThread(u, job_id)) =>
      \A other \in Users :
        /\ \A q \in ThreadRequests, dt \in ThreadClockSteps :
             \A after \in conversation_results(u, job_id, other, q[1], q[2], dt) :
               /\ after.response.kind = "forbidden"
               /\ after.msgs = msgs
               /\ after.nextMsgId = nextMsgId
        /\ LET after == clear_chat_result(u, "POST", job_id, other)
           IN after.response.kind = "forbidden" /\ after.msgs = msgs

\* C11 witness: f1 wrote in the thread of job 1 while accepted and has been
\* rejected since; a message to f1 is waiting unread, and a thread request was
\* just refused
C11_Witness ==
  /\ response = Forbidden("Not authorized to view this conversation")
  /\ \E a \in apps : a.job = 1 /\ a.applicant_user = "f1" /\ a.status = "rejected"
  /\ \E m \in msgs : m.job = 1 /\ m.sender = "f1"
  /\ \E m \in msgs : m.job = 1 /\ m.receiver = "f1" /\ ~m.read

\* C12: in every reachable state, post_job leaves the Job table as it was and
\* answers with a redirect for every requester whose profile role is not
\* client (freelancer, no profile, not signed in), and when it adds a job it
\* adds exactly one, open and owned by the requester, a client; apply_job
\* leaves the Application table as it was and answers with a redirect for
\* every requester whose role is not freelancer, and when it adds an
\* application it adds exactly one, pending and with the requester, a
\* freelancer, as applicant_user.  Every job's owner is a client and every
\* application's applicant_user is a freelancer.
C12_CreationRoleGated ==
  /\ \A j \in 1..Len(jobs) : Role(jobs[j].owner) = "client"
  /\ \A a \in apps : Role(a.applicant_user) = "freelancer"
  /\ \A u \in Requesters, method \in Methods, f \in JobForms :
       LET after == post_job_result(u, method, f[1], f[2], f[3])
       IN /\ Role(u) # "client" =>
               after.jobs = jobs /\ after.response.kind = "redirect"
          /\ after.jobs # jobs =>
               /\ Role(u) = "client"
               /\ after.jobs = Append(jobs, [owner |-> u, status |-> "open"])
  /\ \A u \in Requesters, job_id \in JobIds, method \in Methods, f \in ApplyForms :
       LET after == apply_job_result(u, job_id, method, f[1], f[2])
       IN /\ Role(u) # "freelancer" =>
               after.apps = apps /\ after.response.kind = "redirect"
          /\ after.apps # apps =>
               /\ Role(u) = "freelancer"
               /\ \E a \in after.apps \ apps :
                    /\ after.apps = apps \cup {a}
                    /\ a.job = job_id /\ a.applicant_user = u /\ a.status = "pending"
                    /\ \A b \in apps : b.id # a.id

\* C12 witness: both clients own a job, both freelancers have applied, and the
\* request just answered was sent home
C12_Witness ==
  /\ response = Redirect("home")
  /\ {jobs[j].owner : j \in 1..Len(jobs)} = {"c1", "c2"}
  /\ {a.applicant_user : a \in apps} = {"f1", "f2"}
  /\ \A a \in apps : a.status = "pending"

\* C13: in every step that stores a new message, one of the message's sender
\* and receiver is the owner of the message's job and the other is a different
\* user who holds an application on that job with status accepted at that
\* moment: no message is addressed to a user who is neither owner nor accepted
\* applicant, and nobody messages themselves.
C13_OnlyOwnerAndAccepted ==
  [][\A n \in msgs' :
       (\A m \in msgs : m.id # n.id) =>
         \E owner \in {n.sender, n.receiver}, freelancer \in {n.sender, n.receiver} :
           /\ {owner, freelancer} = {n.sender, n.receiver}
           /\ owner # freelancer
           /\ jobs[n.job].owner = owner
           /\ \E a \in apps : /\ a.job = n.job
                              /\ a.applicant_user = freelancer
                              /\ a.status = "accepted"]_vars

\* C14: in every reachable state, a job whose status is completed (complete_job
\* has returned for it) has no application with status pending.
C14_NoPendingOnCompleted ==
  \A a \in apps : jobs[a.job].status = "completed" => a.status # "pending"
====
